---- MODULE Spec2Model ----
(***************************************************************************)
(* cpp-generes (src/main.cpp): one run of main() as a state machine.       *)
(*                                                                         *)
(* Strings that the program inspects character by character (the output    *)
(* path, the namespace, the guard token, the decimal text of an entry) are *)
(* sequences of unsigned char codes 0..255.  Strings that the program only *)
(* copies (resource paths, aliases, the symbol name) are TLA+ strings.     *)
(*                                                                         *)
(* The source has two builds, selected by __cplusplus: the std::filesystem *)
(* build (C++17 and later) and the legacy build (stat / "mkdir -p").  The  *)
(* build is part of the environment record env, together with the          *)
(* signedness of plain char, the directories and input files on disk.      *)
(* std::filesystem is modelled with POSIX path syntax ('/' separates).     *)
(***************************************************************************)
EXTENDS Integers, Sequences, FiniteSets, TLC

VARIABLES
    env,            \* the build and the world outside the process (constant)
    args,           \* parsed command line: args.get<>(...) of main.cpp:181-199
    pc,             \* position in main()
    guards, name, output, name_space, vec,   \* main's locals, main.cpp:181-199
    define,         \* main.cpp:201-208
    dir,            \* main.cpp:210
    fs,             \* kind of each directory path on disk
    file_is_open,   \* state of std::ofstream file, main.cpp:219
    disk,           \* lines of the output file on disk
    disk_exists,    \* whether the output file exists on disk
    i,              \* position of the range-for over vec, main.cpp:239
    in_opens,       \* paths std::ifstream tried to open, main.cpp:240
    console,        \* lines printed to std::cout / std::cerr, in order
    exit_code       \* process exit status; -1 while running

vars == <<env, args, pc, guards, name, output, name_space, vec, define, dir,
          fs, file_is_open, disk, disk_exists, i, in_opens, console, exit_code>>

-----------------------------------------------------------------------------
(* Bounds of the model *)

MaxOut == 5
MaxStem == 3
MaxNs == 1
MaxRes == 3
MaxBytes == 3

-----------------------------------------------------------------------------
(* Text constants of main() *)

\* "resources"
default_namespace == <<114,101,115,111,117,114,99,101,115>>
\* "resources"
default_name == "resources"
\* "resources.hpp"
default_output == <<114,101,115,111,117,114,99,101,115,46,104,112,112>>
\* ".h"
DotH == <<46,104>>
\* ".hpp"
DotHpp == <<46,104,112,112>>

-----------------------------------------------------------------------------
(* <cctype> in the "C" locale (main never calls setlocale) *)

UChar == 0..255

iscntrl(c) == c \in 0..31 \/ c = 127

ispunct(c) == c \in 33..47 \/ c \in 58..64 \/ c \in 91..96 \/ c \in 123..126

toupper(c) == IF c \in 97..122 THEN c - 32 ELSE c

-----------------------------------------------------------------------------
(* namespace detail *)

\* std::string::find_last_of: the last index of s holding a member of set,
\* 0 for npos
find_last_of(s, set) ==
    LET hits == {k \in 1..Len(s) : s[k] \in set}
    IN  IF hits = {} THEN 0 ELSE CHOOSE k \in hits : \A m \in hits : m <= k

\* std::string::find(old, start): the first index >= start holding old,
\* 0 for npos
find_from(s, old, start) ==
    LET hits == {k \in start..Len(s) : s[k] = old}
    IN  IF hits = {} THEN 0 ELSE CHOOSE k \in hits : \A m \in hits : k <= m

\* the path separators _file_name and _directory_name split on
Separators(cxx17) == IF cxx17 THEN {47} ELSE {47, 92}

_ends_with(s, value) ==
    /\ Len(s) >= Len(value)
    /\ SubSeq(s, Len(s) - Len(value) + 1, Len(s)) = value

\* a variant that keeps the directory part
_file_name_Whole(cxx17, path) == path

_file_name(cxx17, path) ==
    SubSeq(path, find_last_of(path, Separators(cxx17)) + 1, Len(path))

\* std::filesystem::path::parent_path drops the separators that end the
\* parent, except those of the root directory; the legacy branch cuts at the
\* last separator
_directory_name(cxx17, path) ==
    LET pos == find_last_of(path, Separators(cxx17))
        cut[k \in 0..Len(path)] ==
            IF k = 0 THEN 0
            ELSE IF path[k] = 47 THEN cut[k - 1] ELSE k
    IN  IF pos = 0 THEN <<>>
        ELSE IF ~cxx17 THEN SubSeq(path, 1, pos - 1)
        ELSE IF cut[pos] = 0 THEN <<47>>
        ELSE SubSeq(path, 1, cut[pos])

RECURSIVE replace_from(_, _, _, _)
replace_from(s, old, value, start) ==
    LET pos == find_from(s, old, start)
    IN  IF pos = 0 THEN s
        ELSE replace_from(SubSeq(s, 1, pos - 1) \o value
                              \o SubSeq(s, pos + 1, Len(s)),
                          old, value, pos + Len(value))

_replace_char(s, old, value) == replace_from(s, old, value, 1)

\* func is the predicate as a table over unsigned char
RECURSIVE _replace(_, _, _)
_replace(s, func, value) ==
    IF s = <<>> THEN <<>>
    ELSE (IF func[Head(s)] THEN value ELSE <<Head(s)>>)
             \o _replace(Tail(s), func, value)

_to_upper(s) == [k \in 1..Len(s) |-> toupper(s[k])]

-----------------------------------------------------------------------------
(* The directories on disk.  A table gives a path's kind: "none", "dir" or *)
(* "file"; a path the table does not hold is "none".  The working          *)
(* directory (the empty path and ".") and the root always exist.           *)

Kind(fsx, path) == IF path \in DOMAIN fsx THEN fsx[path] ELSE "none"

IsDir(fsx, path) ==
    path = <<>> \/ path = <<46>> \/ path = <<47>> \/ Kind(fsx, path) = "dir"

\* the path of the directory that holds path, as the operating system sees it
OSParent(path) ==
    LET pos == find_last_of(path, {47})
    IN  IF pos = 0 THEN <<>> ELSE IF pos = 1 THEN <<47>>
        ELSE SubSeq(path, 1, pos - 1)

\* path and the directories above it
Prefixes(path) ==
    {SubSeq(path, 1, k - 1) : k \in {m \in 2..Len(path) : path[m] = 47}}
        \cup {path}

MkDirs(fsx, made) ==
    [p \in DOMAIN fsx \cup made |-> IF p \in made THEN "dir" ELSE fsx[p]]

_is_directory_exists(fsx, path) == IsDir(fsx, path)

\* std::filesystem::create_directory(dir): one mkdir(2).  An existing
\* directory is no error and returns false; every other failure (a file in
\* the way, a missing parent, no permission) throws filesystem_error, which
\* nothing in main catches.
create_directory(fsx, denied, path) ==
    IF IsDir(fsx, path) THEN [result |-> "false", fs |-> fsx]
    ELSE IF Kind(fsx, path) = "file" \/ ~IsDir(fsx, OSParent(path)) \/ denied
         THEN [result |-> "throw", fs |-> fsx]
    ELSE [result |-> "true", fs |-> MkDirs(fsx, {path})]

\* system("mkdir -p " + path) == 0: creates every missing directory of the
\* path; fails when a file is in the way or a directory cannot be created
mkdir_p(fsx, denied, path) ==
    LET missing == {p \in Prefixes(path) : ~IsDir(fsx, p)}
    IN  IF \E p \in missing : Kind(fsx, p) = "file"
             THEN [result |-> "false", fs |-> fsx]
        ELSE IF missing # {} /\ denied THEN [result |-> "false", fs |-> fsx]
        ELSE [result |-> "true", fs |-> MkDirs(fsx, missing)]

_make_directory(cxx17, fsx, denied, path) ==
    IF cxx17 THEN create_directory(fsx, denied, path)
    ELSE mkdir_p(fsx, denied, path)

\* std::ofstream file(output): opens when the directory that holds the file
\* exists and the file itself can be created or truncated
ofstream_open(fsx, can_open, path) == can_open /\ IsDir(fsx, OSParent(path))

-----------------------------------------------------------------------------
(* Lines of text.  A line of the output file is [kind, text, str]; a line  *)
(* of the console is [stream, kind, path, dir, out].                       *)

Line(kind, text, str) == [kind |-> kind, text |-> text, str |-> str]

FailOpenLine(path) ==
    [stream |-> "cout", kind |-> "fail_open", path |-> path,
     dir |-> <<>>, out |-> <<>>]

FailDirLine(d, out) ==
    [stream |-> "cerr", kind |-> "fail_dir", path |-> "", dir |-> d, out |-> out]

OkLine(out) ==
    [stream |-> "cout", kind |-> "ok", path |-> "", dir |-> <<>>, out |-> out]

\* file << x: a stream that failed to open drops what is written to it
Write(content, is_open, lines) == IF is_open THEN content \o lines ELSE content

-----------------------------------------------------------------------------
(* main(), lines 181-199: the resolved arguments *)

\* a variant that accepts only the .hpp suffix
NormalizeOutput_OnlyHpp(o) ==
    LET o1 == IF o = <<>> THEN default_output ELSE o
    IN  IF ~_ends_with(o1, DotHpp) THEN o1 \o DotHpp ELSE o1

NormalizeOutput(o) ==
    LET o1 == IF o = <<>> THEN default_output ELSE o
    IN  IF ~_ends_with(o1, DotH) /\ ~_ends_with(o1, DotHpp)
        THEN o1 \o DotHpp ELSE o1

ResolveName(n) == IF n = "" THEN default_name ELSE n

ResolveNamespace(ns) == IF ns = <<>> THEN default_namespace ELSE ns

(* main(), lines 201-208: the guard token *)

is_cntrl == [c \in UChar |-> iscntrl(c)]

is_punct == [c \in UChar |-> ispunct(c)]

DeriveDefine(cxx17, out, ns) ==
    LET d0 == _file_name(cxx17, out)
        d1 == _replace(d0, is_cntrl, <<>>)
        d2 == _replace(d1, is_punct, <<95>>)
        d3 == _replace_char(d2, 32, <<95>>)
    IN  <<95>> \o _to_upper(ns) \o <<95>> \o _to_upper(d3) \o <<95>>

(* main(), lines 220-238 and 254-259: the fixed lines of the output file *)

GuardOpening(g, d) ==
    IF g = "define"
    THEN <<Line("ifndef", d, ""), Line("define", d, "")>>
    ELSE <<Line("pragma_once", <<>>, "")>>

\* a variant that closes the guard whatever the style
GuardClosing_Always(g, d) ==
    <<Line("blank", <<>>, ""), Line("endif", d, "")>>

GuardClosing(g, d) ==
    IF g = "define"
    THEN <<Line("blank", <<>>, ""), Line("endif", d, "")>>
    ELSE <<>>

HeaderLines(g, d, ns, n) ==
    <<Line("banner", <<>>, "// this file is auto-generated by the cpp-generes program"),
      Line("banner", <<>>, "// see https://github.com/rue-ryuzaki/cpp-generes"),
      Line("blank", <<>>, "")>>
    \o GuardOpening(g, d)
    \o <<Line("blank", <<>>, ""),
         Line("include", <<>>, "<cstdint>"),
         Line("include", <<>>, "<string>"),
         Line("include", <<>>, "<vector>"),
         Line("include", <<>>, "<unordered_map>"),
         Line("blank", <<>>, ""),
         Line("namespace_open", ns, ""),
         Line("map_decl", <<>>, n),
         Line("map_open", <<>>, "")>>

FooterLines(g, d, ns) ==
    <<Line("map_close", <<>>, ""), Line("namespace_close", ns, "")>>
    \o GuardClosing(g, d)

(* main(), lines 242-248: one mapping entry *)

\* a byte of the file as an element of std::vector<char>
ToChar(char_signed, b) == IF char_signed /\ b >= 128 THEN b - 256 ELSE b

\* uint8_t(c): the value modulo 2^8
ToU8(c) == c % 256

\* uint32_t(v): the value modulo 2^32, held as two 16-bit limbs
\* (v ranges over the values of char and uint8_t)
ToU32(v) ==
    IF v >= 0 THEN [hi |-> 0, lo |-> v] ELSE [hi |-> 65535, lo |-> 65536 + v]

\* a variant without the uint8_t cast: uint32_t(c)
ByteToU32_NoByteCast(c) == ToU32(c)

\* uint32_t(uint8_t(c))
ByteToU32(c) == ToU32(ToU8(c))

\* operator<<(unsigned): the decimal digits of n
RECURSIVE Dec(_)
Dec(n) ==
    LET rh == n.hi % 10
        low == rh * 65536 + n.lo
        q == [hi |-> n.hi \div 10, lo |-> low \div 10]
    IN  IF q.hi = 0 /\ q.lo = 0 THEN <<48 + (low % 10)>>
        ELSE Dec(q) \o <<48 + (low % 10)>>

RECURSIVE EntryBody(_)
EntryBody(buffer) ==
    IF buffer = <<>> THEN <<>>
    ELSE Dec(ByteToU32(Head(buffer))) \o <<44>> \o EntryBody(Tail(buffer))

ReadBuffer(char_signed, bytes) ==
    [k \in 1..Len(bytes) |-> ToChar(char_signed, bytes[k])]

EntryLine(char_signed, bytes, alias) ==
    Line("entry", EntryBody(ReadBuffer(char_signed, bytes)), alias)

-----------------------------------------------------------------------------
(* main() *)

\* lines 181-199
ResolveArgs ==
    /\ pc = "resolve"
    /\ guards' = args.guards
    /\ name' = ResolveName(args.name)
    /\ output' = NormalizeOutput(args.output)
    /\ name_space' = ResolveNamespace(args.namespace)
    /\ vec' = args.resources
    /\ pc' = "derive"
    /\ UNCHANGED <<env, args, define, dir, fs, file_is_open, disk, disk_exists,
                   i, in_opens, console, exit_code>>

\* lines 201-208
DeriveGuard ==
    /\ pc = "derive"
    /\ define' = DeriveDefine(env.cxx17, output, name_space)
    /\ pc' = "ensure"
    /\ UNCHANGED <<env, args, guards, name, output, name_space, vec, dir, fs,
                   file_is_open, disk, disk_exists, i, in_opens, console,
                   exit_code>>

\* lines 210-217; a filesystem_error that leaves main ends the process by
\* std::terminate (abort, status 134) with nothing printed by the program
EnsureDir ==
    /\ pc = "ensure"
    /\ LET d == _directory_name(env.cxx17, output)
           need == d # <<>> /\ d # <<46>> /\ ~_is_directory_exists(fs, d)
           r == _make_directory(env.cxx17, fs, env.denied, d)
       IN  /\ dir' = d
           /\ IF ~need
              THEN /\ pc' = "open"
                   /\ UNCHANGED <<fs, console, exit_code>>
              ELSE IF r.result = "throw"
              THEN /\ pc' = "aborted"
                   /\ exit_code' = 134
                   /\ UNCHANGED <<fs, console>>
              ELSE IF r.result = "false"
              THEN /\ console' = Append(console, FailDirLine(d, output))
                   /\ exit_code' = 1
                   /\ pc' = "done"
                   /\ UNCHANGED fs
              ELSE /\ fs' = r.fs
                   /\ pc' = "open"
                   /\ UNCHANGED <<console, exit_code>>
    /\ UNCHANGED <<env, args, guards, name, output, name_space, vec, define,
                   file_is_open, disk, disk_exists, i, in_opens>>

\* lines 219-238
OpenAndHeader ==
    /\ pc = "open"
    /\ LET ok == ofstream_open(fs, env.can_open, output)
       IN  /\ file_is_open' = ok
           /\ disk_exists' = (disk_exists \/ ok)
           /\ disk' = Write(<<>>, ok,
                            HeaderLines(guards, define, name_space, name))
    /\ i' = 1
    /\ pc' = "loop"
    /\ UNCHANGED <<env, args, guards, name, output, name_space, vec, define,
                   dir, fs, in_opens, console, exit_code>>

\* a variant of the loop that stops at the first resource it cannot open
EmitResource_StopOnFailure ==
    /\ pc = "loop"
    /\ i <= Len(vec)
    /\ LET pair == vec[i]
           in == env.files[pair.first]
       IN  /\ in_opens' = Append(in_opens, pair.first)
           /\ IF in.exists
              THEN /\ disk' = Write(disk, file_is_open,
                                    <<EntryLine(env.char_signed, in.bytes,
                                                pair.second)>>)
                   /\ i' = i + 1
                   /\ UNCHANGED console
              ELSE /\ console' = Append(console, FailOpenLine(pair.first))
                   /\ i' = Len(vec) + 1
                   /\ UNCHANGED disk
    /\ UNCHANGED <<env, args, pc, guards, name, output, name_space, vec,
                   define, dir, fs, file_is_open, disk_exists, exit_code>>

\* lines 239-253, one iteration of the loop
EmitResource ==
    /\ pc = "loop"
    /\ i <= Len(vec)
    /\ LET pair == vec[i]
           in == env.files[pair.first]
       IN  /\ in_opens' = Append(in_opens, pair.first)
           /\ IF in.exists
              THEN /\ disk' = Write(disk, file_is_open,
                                    <<EntryLine(env.char_signed, in.bytes,
                                                pair.second)>>)
                   /\ UNCHANGED console
              ELSE /\ console' = Append(console, FailOpenLine(pair.first))
                   /\ UNCHANGED disk
    /\ i' = i + 1
    /\ UNCHANGED <<env, args, pc, guards, name, output, name_space, vec,
                   define, dir, fs, file_is_open, disk_exists, exit_code>>

\* a variant that reports failure when a resource could not be opened
Finish_ExitOnFailures ==
    /\ pc = "loop"
    /\ i > Len(vec)
    /\ disk' = Write(disk, file_is_open,
                     FooterLines(guards, define, name_space))
    /\ file_is_open' = FALSE
    /\ console' = Append(console, OkLine(output))
    /\ exit_code' = IF \E k \in 1..Len(console) : console[k].kind = "fail_open"
                    THEN 1 ELSE 0
    /\ pc' = "done"
    /\ UNCHANGED <<env, args, guards, name, output, name_space, vec, define,
                   dir, fs, disk_exists, i, in_opens>>

\* lines 254-265
Finish ==
    /\ pc = "loop"
    /\ i > Len(vec)
    /\ disk' = Write(disk, file_is_open,
                     FooterLines(guards, define, name_space))
    /\ file_is_open' = FALSE
    /\ console' = Append(console, OkLine(output))
    /\ exit_code' = 0
    /\ pc' = "done"
    /\ UNCHANGED <<env, args, guards, name, output, name_space, vec, define,
                   dir, fs, disk_exists, i, in_opens>>

-----------------------------------------------------------------------------
(* Inputs *)

Strings(chars, n) == UNION {[1..k -> chars] : k \in 0..n}

\* "d" and "d/e"
DirD == <<100>>
DirDE == <<100,47,101>>

FsTables ==
    {t \in [{DirD, DirDE} -> {"none", "dir", "file"}] :
        t[DirDE] # "none" => t[DirD] = "dir"}

NoDirs == [p \in {DirD, DirDE} |-> "none"]

InputFile(bytes) == [exists |-> TRUE, bytes |-> bytes]

NoInputFile == [exists |-> FALSE, bytes |-> <<>>]

Paths == {"assets/a.bin", "assets/missing.bin"}

FilesWith(bytes) ==
    [p \in Paths |-> IF p = "assets/a.bin" THEN InputFile(bytes)
                     ELSE NoInputFile]

Entries ==
    {e \in [first : Paths, second : {"blob", "icon"}] :
        e.first = "assets/missing.bin" => e.second = "blob"}

Vecs == Strings(Entries, MaxRes)

\* "", "./o", "d/o.h", "d/e/o.hpp"
MainOutputs ==
    {<<>>, <<46,47,111>>, <<100,47,111,46,104>>,
     <<100,47,101,47,111,46,104,112,112>>}

InitOf(Envs, Args) ==
    /\ env \in Envs
    /\ args \in Args
    /\ pc = "resolve"
    /\ guards = ""
    /\ name = ""
    /\ output = <<>>
    /\ name_space = <<>>
    /\ vec = <<>>
    /\ define = <<>>
    /\ dir = <<>>
    /\ fs = env.fs0
    /\ file_is_open = FALSE
    /\ disk = <<>>
    /\ disk_exists = FALSE
    /\ i = 0
    /\ in_opens = <<>>
    /\ console = <<>>
    /\ exit_code = -1

\* whole runs: every build, every state of the output directory, every list
\* of resources
Init ==
    InitOf([cxx17 : BOOLEAN, char_signed : {TRUE}, fs0 : FsTables,
            denied : BOOLEAN, can_open : BOOLEAN,
            files : {FilesWith(<<0, 1, 255>>)}],
           [guards : {"define", "pragma"}, name : {""},
            output : MainOutputs, namespace : {<<>>}, resources : Vecs])

\* the emitter on files of every content: bytes below and above 128, of one
\* to three decimal digits
ByteSamples == {0, 1, 10, 127, 128, 255}

EmitVecs ==
    {<<[first |-> "assets/a.bin", second |-> "blob"]>>,
     <<[first |-> "assets/missing.bin", second |-> "blob"],
       [first |-> "assets/a.bin", second |-> "icon"]>>}

InitEmit ==
    InitOf([cxx17 : BOOLEAN, char_signed : BOOLEAN, fs0 : {NoDirs},
            denied : {FALSE}, can_open : {TRUE},
            files : {FilesWith(b) : b \in Strings(ByteSamples, MaxBytes)}],
           [guards : {"define"}, name : {"data"}, output : {<<>>},
            namespace : {<<>>}, resources : EmitVecs])

\* the argument resolver on every --output value over '.', '/', 'h', 'p', 'x',
\* and on "build/data" and "data.h"
NormChars == {46, 47, 104, 112, 120}

NormExamples ==
    {<<98,117,105,108,100,47,100,97,116,97>>, <<100,97,116,97,46,104>>}

InitNorm ==
    InitOf([cxx17 : BOOLEAN, char_signed : {TRUE}, fs0 : {NoDirs},
            denied : {FALSE}, can_open : {TRUE},
            files : {FilesWith(<<>>)}],
           [guards : {"define"}, name : {"", "data"},
            output : Strings(NormChars, MaxOut) \cup NormExamples,
            namespace : {<<>>}, resources : {<<>>}])

\* the guard deriver on every file name over '/', '\', '.', ' ', TAB, 'a',
\* '1' and the byte 233, under every namespace over 'n' and '-', and on
\* "out/res.hpp" under "resources"
StemChars == {47, 92, 46, 32, 9, 97, 49, 233}

NsChars == {110, 45}

\* "out/res.hpp"
OutResHpp == <<111,117,116,47,114,101,115,46,104,112,112>>

InitGuard ==
    InitOf([cxx17 : BOOLEAN, char_signed : {TRUE}, fs0 : {NoDirs},
            denied : {FALSE}, can_open : {TRUE},
            files : {FilesWith(<<>>)}],
           [guards : {"define"}, name : {""},
            output : Strings(StemChars, MaxStem) \cup {OutResHpp},
            namespace : Strings(NsChars, MaxNs) \cup {default_namespace},
            resources : {<<>>}])

Next ==
    \/ ResolveArgs
    \/ DeriveGuard
    \/ EnsureDir
    \/ OpenAndHeader
    \/ EmitResource
    \/ Finish

Spec == Init /\ [][Next]_vars

SpecEmit == InitEmit /\ [][Next]_vars

\* the resolver and the deriver alone: lines 181-208
NextArgs ==
    \/ ResolveArgs
    \/ DeriveGuard

SpecNorm == InitNorm /\ [][NextArgs]_vars

SpecGuard == InitGuard /\ [][NextArgs]_vars

-----------------------------------------------------------------------------
(* Vocabulary of the properties *)

Terminal == pc \in {"done", "aborted"}

Printed(kind) == \E k \in 1..Len(console) : console[k].kind = kind

\* the directory step failed with the program's own diagnostic
DirFailed == Printed("fail_dir")

\* the run finished lines 254-265
Finished == pc = "done" /\ ~DirFailed

IsEntry(l) == l.kind = "entry"

CanRead(e) == env.files[e.first].exists

CannotRead(e) == ~env.files[e.first].exists

\* the directory that holds the normalized output path, and its state before
\* the run
OutputParent == OSParent(NormalizeOutput(args.output))

ParentMissingAtStart == ~IsDir(env.fs0, OutputParent)

ParentUncreatable ==
    \/ env.denied
    \/ \E p \in Prefixes(OutputParent) : Kind(env.fs0, p) = "file"

Positions(kind) == {k \in 1..Len(disk) : disk[k].kind = kind}

Before(S, T) == \A a \in S : \A b \in T : a < b

-----------------------------------------------------------------------------
(* C3: in a run whose output file was opened, the mapping entries written  *)
(* so far are exactly the resources read so far whose file could be        *)
(* opened, in input order: an unreadable resource is left out and does not *)
(* stop later ones, and equal aliases are each written.                    *)

C3_EntriesAreTheReadableResources ==
    (pc \in {"loop", "done"} /\ disk_exists) =>
        LET handled == SubSeq(args.resources, 1, i - 1)
            readable == SelectSeq(handled, CanRead)
            written == SelectSeq(disk, IsEntry)
        IN  /\ pc = "done" => handled = args.resources
            /\ Len(written) = Len(readable)
            /\ \A k \in 1..Len(written) :
                   /\ written[k].str = readable[k].second
                   /\ written[k].text =
                          EntryBody(ReadBuffer(env.char_signed,
                                    env.files[readable[k].first].bytes))

\* an unreadable resource first, then two readable ones under one alias
C3_Witness ==
    /\ pc = "done" /\ disk_exists
    /\ Len(args.resources) = 3
    /\ CannotRead(args.resources[1])
    /\ CanRead(args.resources[2]) /\ CanRead(args.resources[3])
    /\ args.resources[2].second = args.resources[3].second
    /\ Len(SelectSeq(disk, IsEntry)) = 2

-----------------------------------------------------------------------------
(* C7: once the directory step has succeeded, the console holds one        *)
(* "[FAIL] Can't open file" line for each resource tried so far that could *)
(* not be opened, in input order; the run ends with all of them followed   *)
(* by the single "[ OK ]" line and exit code 0, however many failed.       *)

C7_FailLinesThenOk ==
    LET fails(seq) ==
            LET bad == SelectSeq(seq, CannotRead)
            IN  [k \in 1..Len(bad) |-> FailOpenLine(bad[k].first)]
    IN  /\ pc = "loop" =>
               /\ console = fails(SubSeq(args.resources, 1, i - 1))
               /\ exit_code = -1
        /\ Finished =>
               /\ console = fails(args.resources)
                                \o <<OkLine(NormalizeOutput(args.output))>>
               /\ exit_code = 0

\* two resources failed to open, one was read
C7_Witness ==
    /\ Finished
    /\ Len(SelectSeq(args.resources, CannotRead)) = 2
    /\ Len(SelectSeq(args.resources, CanRead)) = 1
    /\ Len(console) = 3

-----------------------------------------------------------------------------
(* C10: the written file has the banner, then the guard opening, the       *)
(* includes, the namespace opening, the mapping declaration, the entries,  *)
(* the mapping closing and the namespace closing, in this order.  With     *)
(* Define style the guard opening is #ifndef G directly followed by        *)
(* #define G and the file ends with #endif // G, the same G three times;   *)
(* with Pragma style it is one #pragma once and the file has no #ifndef,   *)
(* #define or #endif.                                                      *)

C10_GuardLinesMatchStyle ==
    (Finished /\ disk_exists) =>
        LET opening == Positions("ifndef") \cup Positions("pragma_once")
        IN  /\ Before(Positions("banner"), opening)
            /\ Before(opening \cup Positions("define"), Positions("include"))
            /\ Before(Positions("include"), Positions("namespace_open"))
            /\ Before(Positions("namespace_open"), Positions("map_decl"))
            /\ Before(Positions("map_decl"), Positions("entry"))
            /\ Before(Positions("entry"), Positions("map_close"))
            /\ Before(Positions("map_close"), Positions("namespace_close"))
            /\ \A kind \in {"banner", "include", "namespace_open", "map_decl",
                            "map_close", "namespace_close"} :
                   Positions(kind) # {}
            /\ Cardinality(opening) = 1
            /\ IF args.guards = "define"
               THEN /\ Positions("pragma_once") = {}
                    /\ \E p \in Positions("ifndef") :
                           /\ Positions("define") = {p + 1}
                           /\ Positions("endif") = {Len(disk)}
                           /\ Before(Positions("namespace_close"), {Len(disk)})
                           /\ disk[p + 1].text = disk[p].text
                           /\ disk[Len(disk)].text = disk[p].text
                           /\ disk[p].text = define
               ELSE /\ Positions("pragma_once") # {}
                    /\ Positions("ifndef") = {}
                    /\ Positions("define") = {}
                    /\ Positions("endif") = {}

\* a Pragma-style file with a mapping entry
C10_Witness ==
    /\ Finished /\ disk_exists
    /\ args.guards = "pragma"
    /\ Positions("pragma_once") # {}
    /\ Positions("entry") # {}

-----------------------------------------------------------------------------
(* C5: when the output file cannot be opened for writing, the run prints   *)
(* no "[ OK ]" line and does not exit with code 0.                         *)

C5_OutputOpenFailureIsFatal ==
    (pc = "done" /\ ~DirFailed /\ ~disk_exists) =>
        (~Printed("ok") /\ exit_code # 0)

-----------------------------------------------------------------------------
(* C6: when the directory of the output path is missing and cannot be      *)
(* created, the run ends with a non-zero exit code after printing the      *)
(* "[FAIL] Can't create directory" line that names the directory and the   *)
(* output file; the output file is never opened, no resource is read and   *)
(* no "[ OK ]" line is printed.                                            *)

C6_DirectoryFailureIsReported ==
    (Terminal /\ ParentMissingAtStart /\ ParentUncreatable) =>
        /\ exit_code # 0
        /\ console = <<FailDirLine(OutputParent, NormalizeOutput(args.output))>>
        /\ ~disk_exists
        /\ in_opens = <<>>
        /\ ~Printed("ok")

-----------------------------------------------------------------------------
(* C4: when the directory of the output path is missing, also when         *)
(* directories above it are missing too, and nothing prevents creating     *)
(* them or the file, the run creates every missing directory, writes the   *)
(* output file inside and exits with code 0.                               *)

C4_MissingDirectoriesAreCreated ==
    (Terminal /\ ParentMissingAtStart /\ ~ParentUncreatable /\ env.can_open) =>
        /\ exit_code = 0
        /\ \A p \in Prefixes(OutputParent) : IsDir(fs, p)
        /\ disk_exists

-----------------------------------------------------------------------------
(* C2: the entry written for a resource whose file could be opened lists   *)
(* exactly the bytes of the file, in file order, each as an unsigned       *)
(* decimal number in 0..255 followed by one comma: read back, the text of  *)
(* the entry gives the n bytes of the file (none for an empty file).       *)

\* the numbers of a text made of decimal numbers in 0..255, each followed by
\* a comma; <<-1>> marks a text that is not of this form
RECURSIVE ParseList(_, _, _)
ParseList(text, cur, digits) ==
    IF text = <<>> THEN (IF digits = 0 THEN <<>> ELSE <<-1>>)
    ELSE IF Head(text) = 44
         THEN IF digits = 0 THEN <<-1>>
              ELSE LET rest == ParseList(Tail(text), 0, 0)
                   IN  IF rest = <<-1>> THEN rest ELSE <<cur>> \o rest
    ELSE IF Head(text) \in 48..57
         THEN LET v == 10 * cur + (Head(text) - 48)
              IN  IF v > 255 \/ (digits > 0 /\ cur = 0) THEN <<-1>>
                  ELSE ParseList(Tail(text), v, digits + 1)
    ELSE <<-1>>

C2_EntryListsTheFileBytes ==
    (pc \in {"loop", "done"} /\ disk_exists) =>
        LET readable == SelectSeq(SubSeq(args.resources, 1, i - 1), CanRead)
            written == SelectSeq(disk, IsEntry)
        IN  /\ Len(written) = Len(readable)
            /\ \A k \in 1..Len(written) :
                   LET bytes == env.files[readable[k].first].bytes
                   IN  /\ ParseList(written[k].text, 0, 0) = bytes
                       /\ Cardinality({m \in 1..Len(written[k].text) :
                              written[k].text[m] = 44}) = Len(bytes)

\* bytes 0, 1, 255 under alias blob, read through a signed char: "0,1,255,"
C2_Witness ==
    /\ pc = "done" /\ disk_exists
    /\ env.char_signed
    /\ env.files["assets/a.bin"].bytes = <<0, 1, 255>>
    /\ \E k \in 1..Len(disk) :
           /\ disk[k].kind = "entry"
           /\ disk[k].str = "blob"
           /\ disk[k].text = <<48,44,49,44,50,53,53,44>>

-----------------------------------------------------------------------------
(* C8: the resolved output path ends in .h or .hpp: an empty --output      *)
(* value becomes resources.hpp, a value that ends in .h or .hpp is kept as *)
(* it is, any other value gets .hpp appended; normalizing the resolved     *)
(* path again changes nothing.                                             *)

HasSuffix(s, suffix) ==
    \E k \in 0..Len(s) : SubSeq(s, k + 1, Len(s)) = suffix

C8_OutputIsNormalized ==
    (pc # "resolve") =>
        LET given == args.output
            suffixed == HasSuffix(given, DotH) \/ HasSuffix(given, DotHpp)
        IN  /\ HasSuffix(output, DotH) \/ HasSuffix(output, DotHpp)
            /\ given = <<>> => output = default_output
            /\ (given # <<>> /\ suffixed) => output = given
            /\ (given # <<>> /\ ~suffixed) => output = given \o DotHpp
            /\ NormalizeOutput(output) = output

\* build/data becomes build/data.hpp
C8_Witness ==
    /\ pc # "resolve"
    /\ args.output = <<98,117,105,108,100,47,100,97,116,97>>
    /\ output = <<98,117,105,108,100,47,100,97,116,97,46,104,112,112>>

-----------------------------------------------------------------------------
(* C1: the guard token is "_" upper(namespace) "_" upper(F) "_", where F   *)
(* is the base file name of the normalized output path (what follows its   *)
(* last path separator) with every control character removed and every     *)
(* punctuation character and every space replaced by "_"; out/res.hpp      *)
(* under namespace resources gives _RESOURCES_RES_HPP_.                    *)

BaseName(path, seps) ==
    LET n == CHOOSE k \in 0..Len(path) :
                 /\ \A j \in (Len(path) - k + 1)..Len(path) : path[j] \notin seps
                 /\ k = Len(path) \/ path[Len(path) - k] \in seps
    IN  SubSeq(path, Len(path) - n + 1, Len(path))

ControlChars == (0..31) \cup {127}

PunctChars == (33..47) \cup (58..64) \cup (91..96) \cup (123..126)

Sanitized(s) ==
    LET kept == SelectSeq(s, LAMBDA c : c \notin ControlChars)
    IN  [k \in 1..Len(kept) |->
            IF kept[k] \in PunctChars \cup {32} THEN 95 ELSE kept[k]]

Upper(s) == [k \in 1..Len(s) |-> IF s[k] \in 97..122 THEN s[k] - 32 ELSE s[k]]

C1_GuardToken ==
    (pc \notin {"resolve", "derive"}) =>
        /\ define = <<95>> \o Upper(name_space) \o <<95>>
                      \o Upper(Sanitized(BaseName(output, Separators(env.cxx17))))
                      \o <<95>>
        /\ (args.output = OutResHpp /\ args.namespace = default_namespace) =>
               define = <<95,82,69,83,79,85,82,67,69,83,95,82,69,83,95,72,80,80,95>>

\* out/res.hpp under resources: _RESOURCES_RES_HPP_
C1_Witness ==
    /\ pc = "ensure"
    /\ args.output = OutResHpp
    /\ args.namespace = default_namespace
    /\ define = <<95,82,69,83,79,85,82,67,69,83,95,82,69,83,95,72,80,80,95>>

-----------------------------------------------------------------------------
(* C9: for every output file name and every namespace the guard token is a *)
(* non-empty preprocessor identifier: letters, digits and underscores only.*)

IdentifierChars == (48..57) \cup (65..90) \cup (97..122) \cup {95}

C9_GuardIsAnIdentifier ==
    (pc \notin {"resolve", "derive"}) =>
        /\ define # <<>>
        /\ \A k \in 1..Len(define) : define[k] \in IdentifierChars

====
